---- MODULE Spec2Model ----
(***************************************************************************)
(* Model of indoxJudge.Evaluator (src/indoxJudge/indoxJudge.py): the model *)
(* binder run by the constructor and the dispatch-and-aggregate loop of    *)
(* evaluate().  The metric classes are external collaborators: a call on   *)
(* one either returns an opaque value, written <<i, op>> for "what op      *)
(* returned on strategy i", or raises.  evaluate() is cut at its external  *)
(* calls, so that the states between two calls of one protocol exist.      *)
(***************************************************************************)
EXTENDS Integers, Sequences, FiniteSets, TLC

VARIABLES metrics, boundModel, pc, idx, step, loc, call, results, log

vars == <<metrics, boundModel, pc, idx, step, loc, call, results, log>>

\* ------------------------------------------------------------------ bounds
MaxMetrics == 2
MaxContexts == 3
MaxIrrelevant == 4

\* ------------------------------------------------------- kinds and dispatch
LLMKinds == {"AnswerRelevancy", "Bias", "Hallucination", "KnowledgeRetention", "Toxicity"}

ScoreOnlyKinds == {"BertScore", "BLEU", "Rouge", "METEOR", "Gruen"}

RecognizedKinds == {"Faithfulness", "ContextualRelevancy", "GEval"} \cup LLMKinds \cup ScoreOnlyKinds

\* a class that is an instance of none of the imported metric classes
UnrecognizedKinds == {"BrokenMetric"}

Kinds == RecognizedKinds \cup UnrecognizedKinds

ModelHandle == "model"

Null == <<>>

\* metric.__class__.__name__
MetricName(m) == m.kind

\* the key of results[...] in the branch taken for a kind
KeyOf(kind) ==
    CASE kind = "Faithfulness" -> "faithfulness"
      [] kind = "AnswerRelevancy" -> "answer_relevancy"
      [] kind = "Bias" -> "bias"
      [] kind = "ContextualRelevancy" -> "contextual_relevancy"
      [] kind = "GEval" -> "geval"
      [] kind = "Hallucination" -> "hallucination"
      [] kind = "KnowledgeRetention" -> "knowledge_retention"
      [] kind = "Toxicity" -> "toxicity"
      [] kind = "BertScore" -> "BertScore"
      [] kind = "BLEU" -> "BLEU"
      [] kind = "Rouge" -> "Rouge"
      [] kind = "METEOR" -> "Meteor"
      [] kind = "Gruen" -> "Gruen"
      [] OTHER -> "none"

\* mutant: a final else branch that calls measure() on any other object
ProtocolGeneric(kind) ==
    CASE kind = "Faithfulness" ->
            <<"evaluate_claims", "evaluate_truths", "evaluate_verdicts", "evaluate_reason">>
      [] kind = "ContextualRelevancy" ->
            <<"get_irrelevancies", "set_irrelevancies", "get_verdicts", "get_reason">>
      [] kind = "GEval" -> <<"g_eval">>
      [] OTHER -> <<"measure">>

\* the operations the branch of a kind invokes on the metric, in program order
Protocol(kind) ==
    CASE kind = "Faithfulness" ->
            <<"evaluate_claims", "evaluate_truths", "evaluate_verdicts", "evaluate_reason">>
      [] kind = "ContextualRelevancy" ->
            <<"get_irrelevancies", "set_irrelevancies", "get_verdicts", "get_reason">>
      [] kind = "GEval" -> <<"g_eval">>
      [] kind \in LLMKinds \cup ScoreOnlyKinds -> <<"measure">>
      [] OTHER -> <<>>

\* ------------------------------------------------------------ exact ratios
\* a score is the pair <<numerator, denominator>>, denominator > 0
RatLess(a, b) == a[1] * b[2] < b[1] * a[2]

RatMax0(a) == IF RatLess(a, <<0, 1>>) THEN <<0, 1>> ELSE a

\* mutant: the ratio itself instead of its complement
ScoreRatioOnly(k, n) == IF k = 0 THEN <<1, 1>> ELSE RatMax0(<<k, n>>)

\* 1.0 if not irrelevancies else max(0, 1.0 - len(irrelevancies) / len(contexts))
\* (k > 0 and n = 0 divides by zero: see ScoreRaises)
Score(k, n) == IF k = 0 THEN <<1, 1>> ELSE RatMax0(<<n - k, n>>)

ScoreRaises(k, n) == k # 0 /\ n = 0

\* ------------------------------------------------------------------- state
EmptyLocals ==
    [claims |-> Null, truths |-> Null, verdicts |-> Null, reason |-> Null,
     irrelevancies |-> Null, score |-> Null, eval_result |-> Null, n |-> 0, k |-> 0]

EmptyReport == [key \in {} |-> Null]

\* a metric instance: its class, and whether it has a set_model method
Strategies == [kind : Kinds, hasSetModel : BOOLEAN]

\* the metric lists the binder is checked on: any class, with or without set_model
BinderLists == UNION {[1..n -> Strategies] : n \in 0..MaxMetrics}

\* the classes judged by the language model, "each metric that requires it"
ModelJudgedKinds == {"Faithfulness", "ContextualRelevancy", "GEval"} \cup LLMKinds

\* the metric lists evaluate is checked on: evaluate never reads set_model nor
\* the bound model, so here the capability goes with the class
MetricLists ==
    UNION {[1..n -> {[kind |-> c, hasSetModel |-> c \in ModelJudgedKinds] : c \in Kinds}] :
              n \in 0..MaxMetrics}

N == Len(metrics)

Cur == metrics[idx]

Info(what, name) == <<"INFO", what, name>>

\* mutant: the error message without the metric's name
ErrorUnnamed(name) == <<"ERROR", "Error evaluating metric", "">>

Error(name) == <<"ERROR", "Error evaluating metric", name>>

InitWith(lists) ==
    /\ metrics \in lists
    /\ boundModel = [i \in 1..Len(metrics) |-> <<>>]
    /\ pc = "new"
    /\ idx = 0
    /\ step = 0
    /\ loc = EmptyLocals
    /\ call = Null
    /\ results = EmptyReport
    /\ log = <<>>

Init == InitWith(MetricLists)

InitBinder == InitWith(BinderLists)

\* -------------------------------------------------------------- constructor
\* mutant: set_model is called without probing for it
WantsModelAlways(m) == TRUE

\* hasattr(metric, 'set_model')
WantsModel(m) == m.hasSetModel

\* the argument of metric.set_model(...)
BinderArg == ModelHandle

\* __init__ with set_model_for_metrics: set_model is invoked on the capable
\* strategies in list order; failAt = 0 when every set_model returns, else the
\* strategy whose set_model raises, which ends the loop and the construction
Construct ==
    /\ pc = "new"
    /\ \E failAt \in {0} \cup {i \in 1..N : WantsModel(metrics[i])} :
         /\ boundModel' = [i \in 1..N |->
                IF WantsModel(metrics[i]) /\ (failAt = 0 \/ i <= failAt)
                THEN Append(boundModel[i], BinderArg) ELSE boundModel[i]]
         /\ log' = log \o <<Info("Evaluator initialized with model and metrics.", "")>>
                       \o (IF failAt = 0 THEN <<Info("Model set for all metrics.", "")>> ELSE <<>>)
         /\ pc' = IF failAt = 0 THEN "idle" ELSE "ctor_failed"
    /\ UNCHANGED <<metrics, idx, step, loc, call, results>>

\* ----------------------------------------------------------------- evaluate
\* results = {}; for metric in self.metrics:
BeginEvaluate ==
    /\ pc = "idle"
    /\ pc' = "loop"
    /\ idx' = 1
    /\ results' = EmptyReport
    /\ UNCHANGED <<metrics, boundModel, step, loc, call, log>>

\* the value an operation returned on strategy i
Ret(i, op) == <<i, op>>

\* attribute f of a returned object, or of the metric itself
Field(t, f) == Append(t, f)

\* mutant: the verdicts are judged from the truths, the reason from the claims
CallArgsSwapped(kind, op, i, l) ==
    CASE op = "evaluate_verdicts" -> <<Field(l.truths, "truths")>>
      [] op = "evaluate_reason" -> <<l.verdicts, Field(l.claims, "claims")>>
      [] op \in {"get_irrelevancies", "get_verdicts"} ->
            <<<<i, "query">>, <<i, "retrieval_contexts">>>>
      [] op = "set_irrelevancies" -> <<l.irrelevancies>>
      [] op = "get_reason" -> <<l.irrelevancies, l.score>>
      [] OTHER -> <<>>

\* the arguments evaluate passes to op, from its locals l
CallArgs(kind, op, i, l) ==
    CASE op = "evaluate_verdicts" -> <<Field(l.claims, "claims")>>
      [] op = "evaluate_reason" -> <<l.verdicts, Field(l.truths, "truths")>>
      [] op \in {"get_irrelevancies", "get_verdicts"} ->
            <<<<i, "query">>, <<i, "retrieval_contexts">>>>
      [] op = "set_irrelevancies" -> <<l.irrelevancies>>
      [] op = "get_reason" -> <<l.irrelevancies, l.score>>
      [] OTHER -> <<>>

\* the local that receives what op returned
Assign(l, op, i) ==
    CASE op = "evaluate_claims" -> [l EXCEPT !.claims = Ret(i, op)]
      [] op = "evaluate_truths" -> [l EXCEPT !.truths = Ret(i, op)]
      [] op \in {"evaluate_verdicts", "get_verdicts"} -> [l EXCEPT !.verdicts = Ret(i, op)]
      [] op \in {"evaluate_reason", "get_reason"} -> [l EXCEPT !.reason = Ret(i, op)]
      [] op = "get_irrelevancies" -> [l EXCEPT !.irrelevancies = Ret(i, op)]
      [] op = "g_eval" -> [l EXCEPT !.eval_result = Ret(i, op)]
      [] op = "measure" -> [l EXCEPT !.score = Ret(i, op)]
      [] OTHER -> l

\* the dict stored under the kind's key
Payload(kind, i, l) ==
    CASE kind = "Faithfulness" ->
            [claims |-> Field(l.claims, "claims"), truths |-> Field(l.truths, "truths"),
             verdicts |-> Field(l.verdicts, "verdicts"), reason |-> Field(l.reason, "reason")]
      [] kind = "AnswerRelevancy" ->
            [score |-> l.score, reason |-> <<i, "reason">>,
             statements |-> <<i, "statements">>, verdicts |-> <<i, "verdicts">>]
      [] kind \in {"Bias", "Toxicity"} ->
            [score |-> l.score, reason |-> <<i, "reason">>,
             opinions |-> <<i, "opinions">>, verdicts |-> <<i, "verdicts">>]
      [] kind = "ContextualRelevancy" ->
            [verdicts |-> Field(l.verdicts, "verdicts"), reason |-> Field(l.reason, "dict")]
      [] kind = "GEval" -> l.eval_result
      [] kind = "Hallucination" ->
            [score |-> l.score, reason |-> <<i, "reason">>, verdicts |-> <<i, "verdicts">>]
      [] kind = "KnowledgeRetention" ->
            [score |-> l.score, reason |-> <<i, "reason">>,
             verdicts |-> <<i, "verdicts">>, knowledges |-> <<i, "knowledges">>]
      [] OTHER -> [score |-> l.score]

\* building the payload reads attributes of the metric or of returned objects
BuildCanRaise(kind) == kind \in {"Faithfulness", "ContextualRelevancy"} \cup LLMKinds

\* results[key] = payload
Store(r, key, payload) ==
    [k \in DOMAIN r \cup {key} |-> IF k = key THEN payload ELSE r[k]]

\* mutant: the except branch ends the loop
NextAfterFailureAborts(i) == N + 1

\* mutant: the except branch skips the following metric
NextAfterFailureSkips(i) == i + 2

\* the loop variable after the except branch
NextAfterFailure(i) == i + 1

\* mutant: the except branch records an entry for the failed metric
ReportAfterFailureKeepsEntry(r, kind, i, l) == Store(r, KeyOf(kind), [score |-> l.score])

\* mutant: the entry is filled field by field, so a failure leaves what was set
ReportAfterFailurePartial(r, kind, i, l) ==
    IF l.verdicts # Null THEN Store(r, KeyOf(kind), [verdicts |-> l.verdicts]) ELSE r

\* the report after the except branch
ReportAfterFailure(r, kind, i, l) == r

\* logger.info(f"Evaluating metric: {metric_name}"), then the isinstance chain
StartMetric ==
    /\ pc = "loop"
    /\ idx <= N
    /\ log' = Append(log, Info("Evaluating metric", MetricName(Cur)))
    /\ pc' = IF Protocol(Cur.kind) = <<>> THEN "nobranch" ELSE "call"
    /\ step' = IF Protocol(Cur.kind) = <<>> THEN 0 ELSE 1
    /\ loc' = EmptyLocals
    /\ UNCHANGED <<metrics, boundModel, idx, call, results>>

Op == Protocol(Cur.kind)[step]

\* len(metric.retrieval_contexts), read when the score is computed
ContextCounts(op) == IF op = "get_reason" THEN 0..MaxContexts ELSE {loc.n}

\* len(irrelevancies) of the list get_irrelevancies returns
IrrelevantCounts(op) == IF op = "get_irrelevancies" THEN 0..MaxIrrelevant ELSE {loc.k}

\* the locals when op is invoked: the score is computed before get_reason
Before(l, op, n) ==
    IF op = "get_reason" THEN [l EXCEPT !.n = n, !.score = Score(l.k, n)] ELSE l

\* except Exception as e: logger.error(...), and on to the next metric
Except ==
    /\ log' = Append(log, Error(MetricName(Cur)))
    /\ results' = ReportAfterFailure(results, Cur.kind, idx, loc)
    /\ idx' = NextAfterFailure(idx)
    /\ pc' = "loop"
    /\ step' = 0
    /\ loc' = EmptyLocals
    /\ call' = Null

\* a call of the protocol is made and returns
CallReturns ==
    /\ pc = "call"
    /\ \E n \in ContextCounts(Op), k \in IrrelevantCounts(Op) :
         /\ ~(Op = "get_reason" /\ ScoreRaises(loc.k, n))
         /\ call' = <<idx, Op, CallArgs(Cur.kind, Op, idx, Before(loc, Op, n))>>
         /\ loc' = [Assign(Before(loc, Op, n), Op, idx) EXCEPT !.k = k]
    /\ IF step < Len(Protocol(Cur.kind))
       THEN pc' = "call" /\ step' = step + 1
       ELSE pc' = "build" /\ step' = 0
    /\ UNCHANGED <<metrics, boundModel, idx, results, log>>

\* a call of the protocol is made and raises
CallRaises ==
    /\ pc = "call"
    /\ \E n \in ContextCounts(Op) : ~(Op = "get_reason" /\ ScoreRaises(loc.k, n))
    /\ Except
    /\ UNCHANGED <<metrics, boundModel>>

\* len(irrelevancies) / len(metric.retrieval_contexts) with an empty list:
\* get_reason is not reached
ScoreDivisionRaises ==
    /\ pc = "call"
    /\ \E n \in ContextCounts(Op) : Op = "get_reason" /\ ScoreRaises(loc.k, n)
    /\ Except
    /\ UNCHANGED <<metrics, boundModel>>

\* results[key] = {...}; logger.info(f"Completed evaluation for metric: ...")
Commit ==
    /\ pc = "build"
    /\ results' = Store(results, KeyOf(Cur.kind), Payload(Cur.kind, idx, loc))
    /\ log' = Append(log, Info("Completed evaluation for metric", MetricName(Cur)))
    /\ idx' = idx + 1
    /\ pc' = "loop"
    /\ loc' = EmptyLocals
    /\ call' = Null
    /\ UNCHANGED <<metrics, boundModel, step>>

\* an attribute read or a .dict() call inside the dict display raises
BuildRaises ==
    /\ pc = "build"
    /\ BuildCanRaise(Cur.kind)
    /\ Except
    /\ UNCHANGED <<metrics, boundModel>>

\* no isinstance test matched: straight to the completion message
NoBranch ==
    /\ pc = "nobranch"
    /\ log' = Append(log, Info("Completed evaluation for metric", MetricName(Cur)))
    /\ idx' = idx + 1
    /\ pc' = "loop"
    /\ UNCHANGED <<metrics, boundModel, step, loc, call, results>>

\* return results
Return ==
    /\ pc = "loop"
    /\ idx > N
    /\ pc' = "done"
    /\ UNCHANGED <<metrics, boundModel, idx, step, loc, call, results, log>>

Next ==
    \/ Construct
    \/ BeginEvaluate
    \/ StartMetric
    \/ CallReturns
    \/ CallRaises
    \/ ScoreDivisionRaises
    \/ Commit
    \/ BuildRaises
    \/ NoBranch
    \/ Return

Spec == Init /\ [][Next]_vars

SpecBinder == InitBinder /\ [][Next]_vars

\* ------------------------------------------------------ reading the log
IsEvaluateMessage(m) ==
    m[2] \in {"Evaluating metric", "Completed evaluation for metric", "Error evaluating metric"}

\* the messages evaluate() has logged, in order
EvalLog == SelectSeq(log, IsEvaluateMessage)

Recognized(i) == metrics[i].kind \in RecognizedKinds

\* strategy i has been attempted and its attempt is over
Concluded(i) == Len(EvalLog) >= 2 * i

\* the attempt of strategy i ended in the except branch
Raised(i) == Concluded(i) /\ EvalLog[2 * i][1] = "ERROR"

\* the strategy whose operations produced the entry under key
OriginOf(key) ==
    IF key = "geval" THEN results[key][1]
    ELSE IF "reason" \in DOMAIN results[key] THEN results[key].reason[1]
    ELSE results[key].score[1]

InEvaluate == pc \in {"loop", "call", "build", "nobranch", "done"}

\* ---------------------------------------------------------------- claims

C2_RaisedKeyAbsent ==
    pc = "done" =>
        /\ DOMAIN results \subseteq {KeyOf(metrics[i].kind) : i \in 1..N}
        /\ \A i \in 1..N : Raised(i) => KeyOf(metrics[i].kind) \notin DOMAIN results

\* C2 amended: at every point of evaluate the keys of the report are the
\* kind-keys of the recognized strategies attempted so far that did not raise;
\* so the key of a strategy that raised is absent unless another strategy of
\* the same kind completed without raising.
C2_KeysOfSucceeded ==
    InEvaluate =>
        /\ DOMAIN results =
              {KeyOf(metrics[i].kind) : i \in {j \in 1..N : Concluded(j) /\ Recognized(j) /\ ~Raised(j)}}
        /\ \A i \in 1..N :
              (Raised(i) /\ KeyOf(metrics[i].kind) \in DOMAIN results) =>
                  \E j \in (1..N) \ {i} :
                      metrics[j].kind = metrics[i].kind /\ Concluded(j) /\ ~Raised(j)

C2_Witness ==
    /\ pc = "done"
    /\ N = 2
    /\ metrics[1].kind = metrics[2].kind
    /\ ~Raised(1) /\ Raised(2)
    /\ DOMAIN results = {KeyOf(metrics[1].kind)}

\* C3: ordering.  The log of evaluate is, strategy by strategy in list order,
\* the start message of strategy i followed by its completion or error
\* message; an operation is only ever invoked on the strategy the loop stands
\* at, whose predecessors have all concluded; evaluate returns after the last.
C3_Ordering ==
    InEvaluate =>
        /\ \A j \in 1..Len(EvalLog) :
              IF j % 2 = 1
              THEN (j + 1) \div 2 \in 1..N
                   /\ EvalLog[j] = Info("Evaluating metric", MetricName(metrics[(j + 1) \div 2]))
              ELSE EvalLog[j] \in
                      {Info("Completed evaluation for metric", MetricName(metrics[j \div 2])),
                       Error(MetricName(metrics[j \div 2]))}
        /\ pc = "loop" => Len(EvalLog) = 2 * (idx - 1)
        /\ pc \in {"call", "build", "nobranch"} => Len(EvalLog) = 2 * idx - 1
        /\ call # Null => (pc \in {"call", "build"} /\ call[1] = idx)
        /\ pc = "done" => (idx = N + 1 /\ Len(EvalLog) = 2 * N)

C3_Witness ==
    /\ pc = "done"
    /\ N = 2
    /\ metrics[1].kind # metrics[2].kind
    /\ Raised(1)
    /\ ~Raised(2)

\* C4: binder coverage.  Once the constructor has returned, set_model has been
\* invoked exactly once, with the shared handle, on every strategy that has
\* set_model, and never on a strategy without it; this is so before the first
\* operation of evaluate and stays so through evaluate.
C4_BinderCoverage ==
    /\ \A i \in 1..N : ~metrics[i].hasSetModel => boundModel[i] = <<>>
    /\ pc \notin {"new", "ctor_failed"} =>
          \A i \in 1..N : metrics[i].hasSetModel => boundModel[i] = <<ModelHandle>>

C4_Witness ==
    /\ pc = "call"
    /\ call # Null
    /\ N = 2
    /\ metrics[1].hasSetModel /\ ~metrics[2].hasSetModel
    /\ boundModel = <<<<ModelHandle>>, <<>>>>

\* C5: Faithfulness protocol.  The four stages are invoked in the order
\* evaluate_claims, evaluate_truths, evaluate_verdicts, evaluate_reason;
\* evaluate_verdicts receives the claims that evaluate_claims returned,
\* evaluate_reason the verdicts and the truths the earlier stages returned;
\* a 'faithfulness' entry holds the four outputs of one and the same run.
C5_FaithfulnessProtocol ==
    /\ (idx \in 1..N /\ pc \in {"call", "build"} /\ metrics[idx].kind = "Faithfulness") =>
          LET returned == IF pc = "build" THEN 4 ELSE step - 1
              order == <<"evaluate_claims", "evaluate_truths", "evaluate_verdicts", "evaluate_reason">>
          IN /\ loc.claims = (IF returned >= 1 THEN <<idx, "evaluate_claims">> ELSE Null)
             /\ loc.truths = (IF returned >= 2 THEN <<idx, "evaluate_truths">> ELSE Null)
             /\ loc.verdicts = (IF returned >= 3 THEN <<idx, "evaluate_verdicts">> ELSE Null)
             /\ loc.reason = (IF returned >= 4 THEN <<idx, "evaluate_reason">> ELSE Null)
             /\ (returned = 0) <=> (call = Null)
             /\ returned >= 1 => call[2] = order[returned]
             /\ (returned >= 1 /\ call[2] = "evaluate_verdicts") =>
                   call[3] = << <<idx, "evaluate_claims", "claims">> >>
             /\ (returned >= 1 /\ call[2] = "evaluate_reason") =>
                   call[3] = << <<idx, "evaluate_verdicts">>, <<idx, "evaluate_truths", "truths">> >>
    /\ "faithfulness" \in DOMAIN results =>
          \E i \in 1..N :
              /\ metrics[i].kind = "Faithfulness"
              /\ results["faithfulness"] =
                    [claims |-> <<i, "evaluate_claims", "claims">>,
                     truths |-> <<i, "evaluate_truths", "truths">>,
                     verdicts |-> <<i, "evaluate_verdicts", "verdicts">>,
                     reason |-> <<i, "evaluate_reason", "reason">>]

C5_Witness ==
    /\ pc = "done"
    /\ "faithfulness" \in DOMAIN results
    /\ N = 2
    /\ metrics[2].kind = "Faithfulness"
    /\ Raised(2)

\* C6: ContextualRelevancy score law.  With n contexts and k irrelevant items,
\* 0 <= k <= n, the score passed to get_reason is 1 when k = 0 and
\* max(0, 1 - k/n) = (n - k)/n otherwise, as an exact ratio.
C6_ScoreLaw ==
    (call # Null /\ call[2] = "get_reason" /\ loc.k <= loc.n) =>
        LET s == call[3][2]
        IN /\ s[2] > 0
           /\ IF loc.k = 0
              THEN s[1] = s[2]
              ELSE s[1] >= 0 /\ s[1] * loc.n = (loc.n - loc.k) * s[2]

C6_Witness ==
    /\ call # Null /\ call[2] = "get_reason"
    /\ loc.n = 3 /\ loc.k = 1
    /\ call[3][2] = <<2, 3>>

\* C7 as stated: the 'contextual_relevancy' entry of the report holds the
\* rationale and the coverage score the orchestrator computed.
C7_ReportHoldsScore ==
    "contextual_relevancy" \in DOMAIN results =>
        /\ "reason" \in DOMAIN results["contextual_relevancy"]
        /\ "score" \in DOMAIN results["contextual_relevancy"]

C9_Fields(key) ==
    CASE key = "faithfulness" -> {"claims", "truths", "verdicts", "reason"}
      [] key = "answer_relevancy" -> {"score", "reason", "statements", "verdicts"}
      [] key \in {"bias", "toxicity"} -> {"score", "reason", "opinions", "verdicts"}
      [] key = "contextual_relevancy" -> {"verdicts", "reason"}
      [] key = "hallucination" -> {"score", "reason", "verdicts"}
      [] key = "knowledge_retention" -> {"score", "reason", "verdicts", "knowledges"}
      [] OTHER -> {"score"}

C9_EntriesComplete ==
    \A key \in DOMAIN results :
        IF key = "geval"
        THEN results[key] # Null
        ELSE /\ DOMAIN results[key] = C9_Fields(key)
             /\ \A f \in DOMAIN results[key] : results[key][f] # Null

C9_OnlyCompletionWrites ==
    (InEvaluate /\ results' # results) =>
        /\ pc = "build"
        /\ EvalLog' = Append(EvalLog, <<"INFO", "Completed evaluation for metric", metrics[idx].kind>>)
        /\ \A key \in DOMAIN results : key # KeyOf(metrics[idx].kind) =>
              (key \in DOMAIN results' /\ results'[key] = results[key])

\* C9: atomic entries.  In every state each entry of the report has every
\* field of its kind's payload, all of them set; and the report changes only in
\* the step that completes a strategy, which writes that strategy's key alone:
\* every other step, a raise at any stage included, leaves the report as it was.
C9_AtomicEntries == []C9_EntriesComplete /\ [][C9_OnlyCompletionWrites]_vars

C9_Witness ==
    /\ pc = "loop"
    /\ N = 2
    /\ metrics[2].kind = "ContextualRelevancy"
    /\ Raised(2)
    /\ DOMAIN results = {KeyOf(metrics[1].kind)}

\* C10: unrecognized kinds.  For a strategy that is an instance of no
\* recognized class, evaluate invokes no operation on it, writes no entry,
\* logs no error and logs the completion message of a successful metric.
C10_UnrecognizedSilent ==
    InEvaluate =>
        /\ \A i \in 1..N : ~Recognized(i) =>
              /\ Concluded(i) =>
                    EvalLog[2 * i] = <<"INFO", "Completed evaluation for metric", metrics[i].kind>>
              /\ KeyOf(metrics[i].kind) \notin DOMAIN results
              /\ \A key \in DOMAIN results : OriginOf(key) # i
        /\ \A i \in 1..N : (Recognized(i) /\ Concluded(i) /\ ~Raised(i)) =>
              EvalLog[2 * i] = <<"INFO", "Completed evaluation for metric", metrics[i].kind>>
        /\ (idx \in 1..N /\ ~Recognized(idx)) => (pc \in {"loop", "nobranch"} /\ call = Null)

C10_Witness ==
    /\ pc = "done"
    /\ N = 2
    /\ ~Recognized(1) /\ Recognized(2) /\ ~Raised(2)
    /\ EvalLog[2][1] = EvalLog[4][1] /\ EvalLog[2][2] = EvalLog[4][2]
    /\ DOMAIN results = {KeyOf(metrics[2].kind)}
====
